---- MODULE Spec2Model ----
(***************************************************************************)
(* Model of the movies-frontend single-page application:                   *)
(*   main.jsx    router with two routes, rendered under React StrictMode   *)
(*   layout.jsx  Layout (navigation bar), AddMovie (validated form and the *)
(*               genre fetch), Home (static movie list)                    *)
(*   utils.js    cn (class-name merge)                                     *)
(* Text is a sequence of one-character strings, so that length checks and  *)
(* number conversion are computed rather than assumed.                     *)
(***************************************************************************)
EXTENDS Integers, Sequences, FiniteSets, TLC

VARIABLES
    pathname,      \* router location (useLocation().pathname)
    strictDev,     \* TRUE: development build, StrictMode re-runs mount effects
    lastLink,      \* history: label of the navigation link clicked last
    movies,        \* Home's useState list while Home is mounted, <<>> otherwise
    mountId,       \* number of AddMovie mounts so far (the current one is the last)
    genres,        \* AddMovie's useState list while mounted, <<>> otherwise
    requests,      \* every GET /genre issued: [mount, status]
    received,      \* per AddMovie mount: the data its setGenres was last given
                   \* while displayed, and whether a response reached it later
    dom,           \* what each rendered input of the form displays
    formValues,    \* react-hook-form's field values of the mounted form
    errors,        \* formState.errors of the mounted form
    isSubmitting,  \* formState.isSubmitting
    isSubmitted,   \* formState.isSubmitted
    console,       \* the data records written by console.log
    cnCall         \* a call of cn: its arguments and what it returned

vars == <<pathname, strictDev, lastLink, movies, mountId, genres, requests,
          received, dom, formValues, errors, isSubmitting, isSubmitted, console, cnCall>>

formVars == <<dom, formValues, errors, isSubmitting, isSubmitted>>

(***************************************************************************)
(* Bounds                                                                  *)
(***************************************************************************)
MaxMounts == 2        \* AddMovie mounts explored
MaxLog == 1           \* console.log calls explored
MaxArgs == 2          \* arguments of a cn call

(***************************************************************************)
(* JavaScript values                                                       *)
(***************************************************************************)
Undefined == [t |-> "undefined", s |-> <<>>, n |-> 0]
Str(s) == [t |-> "string", s |-> s, n |-> 0]
Num(n) == [t |-> "number", s |-> <<>>, n |-> n]

Digits == <<"0", "1", "2", "3", "4", "5", "6", "7", "8", "9">>

IsDigit(c) == \E i \in 1..10 : Digits[i] = c

DigitValue(c) == (CHOOSE i \in 1..10 : Digits[i] = c) - 1

RECURSIVE ParseDigits(_)
ParseDigits(s) ==
    IF s = <<>> THEN 0
    ELSE 10 * ParseDigits(SubSeq(s, 1, Len(s) - 1)) + DigitValue(s[Len(s)])

NaN == [nan |-> TRUE, n |-> 0]

\* Number(v) as z.coerce.number applies it: undefined is NaN, the empty string
\* is 0, a digit string is its value, any other string is NaN.
ToNumber(v) ==
    CASE v.t = "number" -> [nan |-> FALSE, n |-> v.n]
      [] v.t = "string" ->
            IF \A i \in 1..Len(v.s) : IsDigit(v.s[i])
            THEN [nan |-> FALSE, n |-> ParseDigits(v.s)]
            ELSE NaN
      [] OTHER -> NaN

Rep(n) == [i \in 1..n |-> "x"]

(***************************************************************************)
(* The form schema (zod) and its resolver                                  *)
(***************************************************************************)
NoError == ""

\* The schema with the name rule accepting one character.
schema_shortName ==
    [name        |-> [kind |-> "string", required |-> "Movie name is required",
                      min |-> 1, minMsg |-> "Name must be at least 2 characters"],
     description |-> [kind |-> "string", required |-> "Description is required",
                      min |-> 10,
                      minMsg |-> "Description must be at least 10 characters"],
     year        |-> [kind |-> "coerce.number", required |-> "Movie year is required",
                      min |-> 0, minMsg |-> NoError],
     duration    |-> [kind |-> "coerce.number",
                      required |-> "Movie duration is required",
                      min |-> 0, minMsg |-> NoError],
     genre_id    |-> [kind |-> "coerce.number", required |-> "Movie genre is required",
                      min |-> 0, minMsg |-> NoError]]

\* z.object({...}): one rule per key. A string rule reports `required` for a
\* value that is not a string and `minMsg` for one shorter than `min`; a
\* coerce.number rule reports `required` when Number(value) is NaN.
schema ==
    [name        |-> [kind |-> "string", required |-> "Movie name is required",
                      min |-> 2, minMsg |-> "Name must be at least 2 characters"],
     description |-> [kind |-> "string", required |-> "Description is required",
                      min |-> 10,
                      minMsg |-> "Description must be at least 10 characters"],
     year        |-> [kind |-> "coerce.number", required |-> "Movie year is required",
                      min |-> 0, minMsg |-> NoError],
     duration    |-> [kind |-> "coerce.number",
                      required |-> "Movie duration is required",
                      min |-> 0, minMsg |-> NoError],
     genre_id    |-> [kind |-> "coerce.number", required |-> "Movie genre is required",
                      min |-> 0, minMsg |-> NoError]]

SchemaFields == DOMAIN schema

\* The FormField elements the form renders, each with its own FormMessage.
RenderedFields == {"name", "year", "genre_id", "description"}

\* values[f] as a schema reads it: a key the object lacks is undefined.
Get(values, f) == IF f \in DOMAIN values THEN values[f] ELSE Undefined

\* The message of the first issue rule `rule` raises on value v, or NoError.
Issue(rule, v) ==
    IF rule.kind = "string"
    THEN IF v.t # "string" THEN rule.required
         ELSE IF Len(v.s) < rule.min THEN rule.minMsg
         ELSE NoError
    ELSE IF ToNumber(v).nan THEN rule.required ELSE NoError

\* The output of a rule on a value it accepts: strings are kept, coerce.number
\* yields the number.
Output(rule, v) ==
    IF rule.kind = "string" THEN v ELSE Num(ToNumber(v).n)

NoErrors == [f \in SchemaFields |-> NoError]

\* zodResolver(schema)(values): the parsed data and no errors, or no data and
\* one message per offending key.
zodResolver(values) ==
    LET errs == [f \in SchemaFields |-> Issue(schema[f], Get(values, f))]
    IN  IF errs = NoErrors
        THEN [values |-> [f \in SchemaFields |-> Output(schema[f], Get(values, f))],
              errors |-> NoErrors]
        ELSE [values |-> <<>>, errors |-> errs]

\* What a field's FormMessage shows: the field's entry of formState.errors.
\* A schema key without a FormField has no FormMessage.
InlineMessage(f) == IF f \in RenderedFields THEN errors[f] ELSE NoError

(***************************************************************************)
(* Wiring of the inputs                                                    *)
(***************************************************************************)
\* The keys of the object react-hook-form's Controller passes to `render`.
ControllerRenderArg == {"field", "fieldState", "formState"}

\* render={(field) => <Input {...field} />}: the parameter named `field` is the
\* whole render argument, so these are the props the input receives, and
\* field.onChange / field.value of the Select are this object's members.
SpreadProps == ControllerRenderArg

\* An edit reaches the form's values only through an onChange prop.
OnChangeWired == "onChange" \in SpreadProps

\* field.onChange(value) with the form already submitted re-validates (the
\* default reValidateMode is onChange).
FieldChange(f, v) ==
    IF OnChangeWired
    THEN /\ formValues' = [g \in DOMAIN formValues \cup {f} |->
                              IF g = f THEN v ELSE formValues[g]]
         /\ errors' = IF isSubmitted
                      THEN [errors EXCEPT ![f] = Issue(schema[f], v)]
                      ELSE errors
    ELSE UNCHANGED <<formValues, errors>>

(***************************************************************************)
(* Router and Layout                                                       *)
(***************************************************************************)
\* createBrowserRouter([...]): each route's element is <Layout><Page/></Layout>.
router ==
    << [path |-> "/", layout |-> TRUE, page |-> "Home"],
       [path |-> "/add-movie", layout |-> TRUE, page |-> "AddMovie"] >>

\* A location no route matches; the router then shows its error page.
OtherPath == "/other"

Match(p) == {i \in 1..Len(router) : router[i].path = p}

Route(p) == router[CHOOSE i \in Match(p) : \A j \in Match(p) : i <= j]

\* The page component displayed at the current location.
Page == IF Match(pathname) = {} THEN "ErrorPage" ELSE Route(pathname).page

\* Whether the page is wrapped in Layout (and so the navigation bar is shown).
LayoutShown == Match(pathname) # {} /\ Route(pathname).layout

\* The navigation bar with the "Movies" link pointing at the form.
NavLinks_moviesToForm ==
    << [label |-> "Movie App", to |-> "/"],
       [label |-> "Movies", to |-> "/add-movie"],
       [label |-> "Add Movie", to |-> "/add-movie"] >>

\* The <Link> elements of Layout's navigation bar.
NavLinks ==
    << [label |-> "Movie App", to |-> "/"],
       [label |-> "Movies", to |-> "/"],
       [label |-> "Add Movie", to |-> "/add-movie"] >>

\* The conditional part of a navigation link's className.
ActiveStyle == "bg-primary text-primary-foreground"

InactiveStyle == "text-foreground hover:bg-secondary hover:text-white"

\* The className of the "Movies" link: the fixed classes, then the style chosen
\* by pathname === "/".
MoviesLinkClass ==
    << "px-4 py-2 rounded-lg transition-colors",
       IF pathname = "/" THEN ActiveStyle ELSE InactiveStyle >>

\* The "Add Movie" link testing the home path, as the "Movies" link does.
AddMovieLinkClass_homePath ==
    << "px-4 py-2 rounded-lg transition-colors",
       IF pathname = "/" THEN ActiveStyle ELSE InactiveStyle >>

\* The className of the "Add Movie" link, chosen by pathname === "/add-movie".
AddMovieLinkClass ==
    << "px-4 py-2 rounded-lg transition-colors",
       IF pathname = "/add-movie" THEN ActiveStyle ELSE InactiveStyle >>

(***************************************************************************)
(* Home                                                                    *)
(***************************************************************************)
movie ==
    [id |-> 1, title |-> "Inception", year |-> 2010, genre |-> "Sci-Fi",
     rating |-> "8.8", description |-> "A thief who steals corporate secrets"]

\* useState([movie, movie, movie, movie])
InitialMovies == <<movie, movie, movie, movie>>

\* movies.map((_, index) => <Card key={movie.id}> ... </Card>): one card per
\* entry, each built from the module-level `movie`.
Cards ==
    [index \in 1..Len(movies) |->
        [key |-> movie.id, title |-> movie.title, year |-> movie.year,
         genre |-> movie.genre, rating |-> movie.rating,
         description |-> movie.description, button |-> "Delete"]]

(***************************************************************************)
(* AddMovie                                                                *)
(***************************************************************************)
\* Arrays the server may answer GET /genre with.
ServerGenre(i) == [id |-> i, name |-> <<"Action", "Comedy">>[i]]

GenreLists == { <<ServerGenre(1)>>, <<ServerGenre(2), ServerGenre(1)>> }

\* The module-level const genres = [...], shadowed inside AddMovie by the
\* state variable of the same name.
moduleGenres ==
    << [id |-> 1, name |-> "Action"], [id |-> 2, name |-> "Comedy"],
       [id |-> 3, name |-> "Drama"], [id |-> 4, name |-> "Horror"],
       [id |-> 5, name |-> "Romance"] >>

\* list.map((genre) => <SelectItem key={genre.id} value={genre.id}>
\* {genre.name}</SelectItem>)
SelectItems(list) ==
    [i \in 1..Len(list) |->
        [key |-> list[i].id, value |-> list[i].id, label |-> list[i].name]]

\* The dropdown reading the module-level list instead of the state.
GenreOptions_static == SelectItems(moduleGenres)

\* The options of the Genre dropdown: inside AddMovie `genres` is the state.
GenreOptions == SelectItems(genres)

\* Texts a user types into the text inputs.
InputTexts ==
    [name        |-> { <<>>, <<"a", "b">> },
     year        |-> { <<>>, <<"1", "9">> },
     description |-> { <<>>, Rep(10) }]

\* The inputs of a freshly rendered form: empty text inputs, nothing selected.
InitialDom ==
    [f \in RenderedFields |-> IF f = "genre_id" THEN Undefined ELSE Str(<<>>)]

\* useForm({ resolver }) without defaultValues: every registered field is
\* undefined.
InitialValues == [f \in RenderedFields |-> Undefined]

\* How many times the mount effect runs: StrictMode re-runs it once in a
\* development build.
EffectRuns == IF strictDev THEN 2 ELSE 1

\* fetch(`http://localhost:8000/genre`) of mount m.
NewRequest(m) == [mount |-> m, status |-> "pending"]

\* A mount whose .then(data => setGenres(data)) callback has not run.
NothingReceived == [data |-> <<>>, late |-> FALSE]

FreshForm ==
    /\ dom' = InitialDom
    /\ formValues' = InitialValues
    /\ errors' = NoErrors
    /\ isSubmitting' = FALSE
    /\ isSubmitted' = FALSE

\* AddMovie mounts: fresh state, and the mount effect issues its request(s).
MountAddMovie ==
    /\ mountId' = mountId + 1
    /\ genres' = <<>>
    /\ requests' = requests \o [k \in 1..EffectRuns |-> NewRequest(mountId + 1)]
    /\ received' = Append(received, NothingReceived)
    /\ FreshForm

\* A submit button that ignores the form state.
SubmitButton_alwaysEnabled == [disabled |-> FALSE, label |-> "Add Movie"]

\* <Button type="submit" disabled={form.formState.isSubmitting}>
\* {form.formState.isSubmitting ? "Adding..." : "Add Movie"}</Button>
SubmitButton ==
    [disabled |-> isSubmitting,
     label |-> IF isSubmitting THEN "Adding..." ELSE "Add Movie"]

\* A submit callback that also sends the data to the server.
onValid_posts(data) ==
    /\ console' = Append(console, data)
    /\ requests' = Append(requests, [mount |-> mountId, status |-> "pending"])
    /\ UNCHANGED <<pathname, movies, mountId, genres>>

\* The submit callback: (data) => { console.log(data) }.
onValid(data) ==
    /\ console' = Append(console, data)
    /\ UNCHANGED <<pathname, movies, mountId, genres, requests>>

\* isEmptyObject(errors): handleSubmit calls the callback only then.
PassesValidation(errs) == errs = NoErrors

(***************************************************************************)
(* cn: clsx, then tailwind-merge                                           *)
(***************************************************************************)
\* A class string is a sequence of class names and " " (white space).
\* Arguments of clsx: strings, falsy values, arrays of arguments, and objects
\* (keys in insertion order in `items`, their values in `vals`).
ClassStr(s) == [t |-> "string", s |-> s, items |-> <<>>, vals |-> <<>>]
False == [t |-> "false", s |-> <<>>, items |-> <<>>, vals |-> <<>>]
Arr(items) == [t |-> "array", s |-> <<>>, items |-> items, vals |-> <<>>]
Obj(keys, vals) == [t |-> "object", s |-> <<>>, items |-> keys, vals |-> vals]

\* JavaScript truthiness: false and the empty string are falsy.
Truthy(mix) == mix.t # "false" /\ (mix.t = "string" => mix.s # <<>>)

\* str && (str += ' '); str += y
AddPart(str, y) == IF str = <<>> THEN y ELSE str \o <<" ">> \o y

RECURSIVE ObjKeys(_, _, _)
\* for (y in mix) if (mix[y]) { ... str += y }, from key k on.
ObjKeys(mix, k, str) ==
    IF k > Len(mix.items) THEN str
    ELSE ObjKeys(mix, k + 1,
                 IF mix.vals[k] THEN AddPart(str, mix.items[k]) ELSE str)

RECURSIVE toVal(_)
RECURSIVE ArrVals(_, _, _)
\* for (k = 0; k < len; k++) if (mix[k]) if (y = toVal(mix[k])) { ... }
ArrVals(items, k, str) ==
    IF k > Len(items) THEN str
    ELSE ArrVals(items, k + 1,
                 IF Truthy(items[k]) /\ toVal(items[k]) # <<>>
                 THEN AddPart(str, toVal(items[k]))
                 ELSE str)

toVal(mix) ==
    CASE mix.t = "string" -> mix.s
      [] mix.t = "array" -> ArrVals(mix.items, 1, <<>>)
      [] mix.t = "object" -> ObjKeys(mix, 1, <<>>)
      [] OTHER -> <<>>

\* clsx(...arguments)
clsx(arguments) == ArrVals(arguments, 1, <<>>)

\* The Tailwind class group of a class name, "" for a class that is not a
\* Tailwind class.
ClassGroup(c) ==
    CASE c \in {"p-4", "p-6"} -> "p"
      [] c = "px-2" -> "px"
      [] OTHER -> ""

\* The groups a later class of group g overrides besides its own.
ConflictingClassGroups(g) == IF g = "p" THEN {"px"} ELSE {}

RECURSIVE SplitClasses(_, _)
\* classList.trim().split(/\s+/): the class names of str, `acc` collected so far.
SplitClasses(str, acc) ==
    IF str = <<>> THEN acc
    ELSE SplitClasses(Tail(str),
                      IF Head(str) = " " THEN acc ELSE Append(acc, Head(str)))

RECURSIVE JoinClasses(_)
JoinClasses(names) ==
    IF names = <<>> THEN <<>>
    ELSE AddPart(JoinClasses(SubSeq(names, 1, Len(names) - 1)), <<names[Len(names)]>>)

RECURSIVE MergeClassList(_, _, _, _)
\* mergeClassList walks the class names from the last to the first and keeps a
\* class unless a class kept to its right overrides its group.
MergeClassList(names, index, inConflict, result) ==
    IF index = 0 THEN result
    ELSE LET c == names[index]
             g == ClassGroup(c)
         IN  IF g = ""
             THEN MergeClassList(names, index - 1, inConflict, <<c>> \o result)
             ELSE IF g \in inConflict
             THEN MergeClassList(names, index - 1, inConflict, result)
             ELSE MergeClassList(names, index - 1,
                                 inConflict \cup {g} \cup ConflictingClassGroups(g),
                                 <<c>> \o result)

twMerge(classList) ==
    LET names == SplitClasses(classList, <<>>)
    IN  JoinClasses(MergeClassList(names, Len(names), {}, <<>>))

\* cn without the tailwind-merge step.
cn_clsxOnly(inputs) == clsx(<<Arr(inputs)>>)

\* return twMerge(clsx(inputs)): clsx receives the arguments as one array.
cn(inputs) == twMerge(clsx(<<Arr(inputs)>>))

\* The arguments cn is applied to.
CnInputs ==
    LET atoms == { ClassStr(<<"p-4">>), ClassStr(<<"p-6">>), ClassStr(<<"px-2">>),
                   ClassStr(<<"btn">>), False }
        few == { ClassStr(<<"p-4">>), ClassStr(<<"px-2">>), False }
    IN  atoms
        \cup { ClassStr(<<>>), ClassStr(<<"px-2", " ", "p-4">>),
               ClassStr(<<" ", "btn", " ", " ", "btn", " ">>) }
        \cup { Arr(<<a, b>>) : a, b \in few }
        \cup { Arr(<<ClassStr(<<"p-6">>), Arr(<<False, ClassStr(<<"p-4">>)>>)>>) }
        \cup { Obj(<<<<"p-6">>, <<"btn">>>>, <<x, y>>) : x, y \in BOOLEAN }

NoCall == [inputs |-> <<>>, called |-> 0, out |-> <<>>, again |-> <<>>]

(***************************************************************************)
(* Initial states                                                          *)
(***************************************************************************)
\* The application as loaded at a location, in either build.
Init ==
    /\ pathname \in {"/", "/add-movie", OtherPath}
    /\ strictDev \in BOOLEAN
    /\ lastLink = "none"
    /\ console = <<>>
    /\ movies = IF Page = "Home" THEN InitialMovies ELSE <<>>
    /\ mountId = IF Page = "AddMovie" THEN 1 ELSE 0
    /\ genres = <<>>
    /\ requests = IF Page = "AddMovie"
                  THEN [k \in 1..EffectRuns |-> NewRequest(1)]
                  ELSE <<>>
    /\ received = IF Page = "AddMovie" THEN <<NothingReceived>> ELSE <<>>
    /\ dom = InitialDom
    /\ formValues = InitialValues
    /\ errors = NoErrors
    /\ isSubmitting = FALSE
    /\ isSubmitted = FALSE
    /\ cnCall = NoCall

\* Values handleSubmit may be handed for each schema key.
FormValueSets ==
    [name        |-> { Str(<<"a">>), Str(<<"a", "b">>) },
     description |-> { Str(Rep(9)), Str(Rep(10)) },
     year        |-> { Str(<<"1", "9">>), Str(<<"x">>) },
     duration    |-> { Undefined, Str(<<>>) },
     genre_id    |-> { Undefined, Num(1) }]

\* The mounted form holding any values of the schema's input domain: the
\* states in which handleSubmit, the resolver and the callback are exercised
\* on valid and invalid data alike.
InitForm ==
    /\ pathname = "/add-movie"
    /\ strictDev \in BOOLEAN
    /\ lastLink = "none"
    /\ console = <<>>
    /\ movies = <<>>
    /\ mountId = 1
    /\ genres = <<>>
    /\ requests = [k \in 1..EffectRuns |-> NewRequest(1)]
    /\ received = <<NothingReceived>>
    /\ dom = InitialDom
    /\ formValues \in [SchemaFields -> UNION {FormValueSets[f] : f \in SchemaFields}]
    /\ \A f \in SchemaFields : formValues[f] \in FormValueSets[f]
    /\ errors = NoErrors
    /\ isSubmitting = FALSE
    /\ isSubmitted = FALSE
    /\ cnCall = NoCall

(***************************************************************************)
(* Actions                                                                 *)
(***************************************************************************)
\* A click on the i-th link of the navigation bar: the router moves to the
\* link's target; a page that is left unmounts, the page entered mounts.
ClickLink(i) ==
    /\ UNCHANGED cnCall
    /\ LayoutShown
    /\ ~isSubmitting
    /\ lastLink' = NavLinks[i].label
    /\ pathname' = NavLinks[i].to
    /\ UNCHANGED <<strictDev, console>>
    /\ IF NavLinks[i].to = pathname
       THEN UNCHANGED <<movies, mountId, genres, requests, received, formVars>>
       ELSE IF Route(NavLinks[i].to).page = "AddMovie"
       THEN /\ mountId < MaxMounts
            /\ movies' = <<>>
            /\ MountAddMovie
       ELSE /\ movies' = InitialMovies
            /\ genres' = <<>>
            /\ FreshForm
            /\ received' = [m \in DOMAIN received |->
                               [received[m] EXCEPT !.data = <<>>]]
            /\ UNCHANGED <<mountId, requests>>

\* A Delete button that removes its card's entry from the list.
ClickDelete_removes(i) ==
    /\ Page = "Home"
    /\ i \in DOMAIN Cards
    /\ movies' = [k \in 1..Len(movies) - 1 |-> IF k < i THEN movies[k] ELSE movies[k + 1]]
    /\ UNCHANGED <<pathname, strictDev, lastLink, mountId, genres, requests,
                   received, formVars, console, cnCall>>

\* A click on the Delete button of card i: the button has no onClick handler.
ClickDelete(i) ==
    /\ Page = "Home"
    /\ i \in DOMAIN Cards
    /\ UNCHANGED vars

\* The user types `text` into the text input of field f.
EditInput(f, text) ==
    /\ UNCHANGED received
    /\ UNCHANGED cnCall
    /\ Page = "AddMovie"
    /\ ~isSubmitting
    /\ dom' = [dom EXCEPT ![f] = Str(text)]
    /\ FieldChange(f, Str(text))
    /\ UNCHANGED <<pathname, strictDev, lastLink, movies, mountId, genres,
                   requests, isSubmitting, isSubmitted, console>>

\* The user picks the i-th option of the Genre dropdown.
SelectGenre(i) ==
    /\ UNCHANGED received
    /\ UNCHANGED cnCall
    /\ Page = "AddMovie"
    /\ ~isSubmitting
    /\ i \in DOMAIN GenreOptions
    /\ dom' = [dom EXCEPT !["genre_id"] = Num(GenreOptions[i].value)]
    /\ FieldChange("genre_id", Num(GenreOptions[i].value))
    /\ UNCHANGED <<pathname, strictDev, lastLink, movies, mountId, genres,
                   requests, isSubmitting, isSubmitted, console>>

\* Whether AddMovie mount m is the one on the page.
Mounted(m) == Page = "AddMovie" /\ m = mountId

\* A response applied to whichever AddMovie is on the page.
Respond_anyMount(i, data) ==
    /\ UNCHANGED cnCall
    /\ i \in DOMAIN requests
    /\ requests[i].status = "pending"
    /\ ~isSubmitting
    /\ requests' = [requests EXCEPT ![i].status = "ok"]
    /\ received' = [received EXCEPT ![requests[i].mount] =
                        IF Mounted(requests[i].mount)
                        THEN [data |-> data, late |-> FALSE]
                        ELSE [data |-> <<>>, late |-> TRUE]]
    /\ genres' = IF Page = "AddMovie" THEN data ELSE genres
    /\ UNCHANGED <<pathname, strictDev, lastLink, movies, mountId, formVars,
                   console>>

\* The response of request i arrives with a JSON array: .then(res => res.json())
\* .then(data => setGenres(data)). setGenres acts on the mount that issued it.
Respond(i, data) ==
    /\ UNCHANGED cnCall
    /\ i \in DOMAIN requests
    /\ requests[i].status = "pending"
    /\ ~isSubmitting
    /\ requests' = [requests EXCEPT ![i].status = "ok"]
    /\ received' = [received EXCEPT ![requests[i].mount] =
                        IF Mounted(requests[i].mount)
                        THEN [data |-> data, late |-> FALSE]
                        ELSE [data |-> <<>>, late |-> TRUE]]
    /\ genres' = IF Mounted(requests[i].mount) THEN data ELSE genres
    /\ UNCHANGED <<pathname, strictDev, lastLink, movies, mountId, formVars,
                   console>>

\* Request i fails: fetch rejects (network error) or res.json() rejects (the
\* body is not JSON). The promise chain has no catch: nothing else happens.
RequestFails(i) ==
    /\ UNCHANGED received
    /\ UNCHANGED cnCall
    /\ i \in DOMAIN requests
    /\ requests[i].status = "pending"
    /\ ~isSubmitting
    /\ requests' = [requests EXCEPT ![i].status = "failed"]
    /\ UNCHANGED <<pathname, strictDev, lastLink, movies, mountId, genres,
                   formVars, console>>

\* The form's submit event (a click on the enabled submit button):
\* handleSubmit sets isSubmitting and awaits the resolver.
SubmitStart ==
    /\ UNCHANGED received
    /\ UNCHANGED cnCall
    /\ Page = "AddMovie"
    /\ ~SubmitButton.disabled
    /\ Len(console) < MaxLog
    /\ isSubmitting' = TRUE
    /\ UNCHANGED <<pathname, strictDev, lastLink, movies, mountId, genres,
                   requests, dom, formValues, errors, isSubmitted, console>>

\* handleSubmit resumes with the resolver's result: the callback runs if there
\* are no errors, then the form state is published.
SubmitFinish ==
    /\ UNCHANGED received
    /\ UNCHANGED cnCall
    /\ isSubmitting
    /\ LET r == zodResolver(formValues)
       IN  /\ errors' = r.errors
           /\ IF PassesValidation(r.errors)
              THEN onValid(r.values)
              ELSE UNCHANGED <<console, pathname, movies, mountId, genres,
                               requests>>
    /\ isSubmitting' = FALSE
    /\ isSubmitted' = TRUE
    /\ UNCHANGED <<strictDev, lastLink, dom, formValues>>

Next ==
    \/ \E i \in DOMAIN NavLinks : ClickLink(i)
    \/ \E i \in 1..Len(InitialMovies) + 1 : ClickDelete(i)
    \/ \E f \in DOMAIN InputTexts : \E text \in InputTexts[f] : EditInput(f, text)
    \/ \E i \in 1..Len(GenreOptions) : SelectGenre(i)
    \/ \E i \in DOMAIN requests : \E data \in GenreLists : Respond(i, data)
    \/ \E i \in DOMAIN requests : RequestFails(i)
    \/ SubmitStart
    \/ SubmitFinish

Spec == Init /\ [][Next]_vars

SpecForm == InitForm /\ [][Next]_vars

\* A component is about to call cn on up to MaxArgs arguments.
InitCn ==
    /\ pathname = "/"
    /\ strictDev = FALSE
    /\ lastLink = "none"
    /\ console = <<>>
    /\ movies = InitialMovies
    /\ mountId = 0
    /\ genres = <<>>
    /\ requests = <<>>
    /\ received = <<>>
    /\ dom = InitialDom
    /\ formValues = InitialValues
    /\ errors = NoErrors
    /\ isSubmitting = FALSE
    /\ isSubmitted = FALSE
    /\ \E n \in 0..MaxArgs : \E inputs \in [1..n -> CnInputs] :
          cnCall = [NoCall EXCEPT !.inputs = inputs]

\* cn(...inputs)
CallCn ==
    /\ UNCHANGED received
    /\ cnCall.called = 0
    /\ cnCall' = [cnCall EXCEPT !.called = 1, !.out = cn(cnCall.inputs)]
    /\ UNCHANGED <<pathname, strictDev, lastLink, movies, mountId, genres,
                   requests, formVars, console>>

\* cn(result): the returned class string passed to cn again.
CallCnAgain ==
    /\ UNCHANGED received
    /\ cnCall.called = 1
    /\ cnCall' = [cnCall EXCEPT !.called = 2,
                                !.again = cn(<<ClassStr(cnCall.out)>>)]
    /\ UNCHANGED <<pathname, strictDev, lastLink, movies, mountId, genres,
                   requests, formVars, console>>

NextCn == CallCn \/ CallCnAgain

SpecCn == InitCn /\ [][NextCn]_vars

(***************************************************************************)
(* Properties                                                              *)
(***************************************************************************)
\* The schema's rules as the documentation words them, on form values.
ValidName(values) ==
    Get(values, "name").t = "string" /\ Len(Get(values, "name").s) >= 2

ValidDescription(values) ==
    /\ Get(values, "description").t = "string"
    /\ Len(Get(values, "description").s) >= 10

ConvertsToNumber(values, f) == ~ToNumber(Get(values, f)).nan

ValidForm(values) ==
    /\ ValidName(values)
    /\ ValidDescription(values)
    /\ \A f \in {"year", "duration", "genre_id"} : ConvertsToNumber(values, f)

\* A step in which the submit callback runs.
CallbackRuns == console' # console

\* A step in which a submit attempt ends.
SubmitEnds == isSubmitting /\ ~isSubmitting'

\* C1: the submit callback is invoked only by a submit attempt whose current
\* form values satisfy every rule of the schema: name a string of at least 2
\* characters, description a string of at least 10, and year, duration and
\* genre_id each converting to a number.
C1_CallbackOnlyWhenValid ==
    [][CallbackRuns => (SubmitEnds /\ ValidForm(formValues))]_vars

\* A submit attempt on values that break the schema has ended and nothing was
\* logged.
C1_Witness ==
    /\ isSubmitted
    /\ ~isSubmitting
    /\ ~ValidForm(formValues)
    /\ ValidName(formValues)
    /\ console = <<>>

\* Every input the form renders displays a valid entry.
ValidEntry ==
    /\ ValidName(dom)
    /\ ValidDescription(dom)
    /\ dom["year"] # Str(<<>>) /\ ConvertsToNumber(dom, "year")
    /\ ConvertsToNumber(dom, "genre_id")

\* C2: a user who has given every input of the form a valid value and clicks
\* "Add Movie" reaches the submit callback, which logs the data.
C2_ValidEntryIsLogged ==
    [][(SubmitEnds /\ ValidEntry) => Len(console') = Len(console) + 1]_vars

\* Whether values[f] breaks the rule the documentation gives for field f.
Violates(values, f) ==
    CASE f = "name" -> ~ValidName(values)
      [] f = "description" -> ~ValidDescription(values)
      [] OTHER -> ~ConvertsToNumber(values, f)

\* The messages the schema gives for a field that breaks its rule.
ExpectedMessages(values, f) ==
    CASE f = "name" ->
            IF Get(values, f).t # "string" THEN {"Movie name is required"}
            ELSE {"Name must be at least 2 characters"}
      [] f = "description" ->
            IF Get(values, f).t # "string" THEN {"Description is required"}
            ELSE {"Description must be at least 10 characters"}
      [] f = "year" -> {"Movie year is required", "Year must be a number"}
      [] f = "duration" ->
            {"Movie duration is required", "Duration must be a number"}
      [] OTHER -> {"Movie genre is required", "Genre must be a number"}

\* C3: after a submit attempt that fails validation, every schema field whose
\* value breaks its rule shows its inline error message, and no field whose
\* value satisfies its rule shows one.
C3_InlineErrorsMatchViolations ==
    (isSubmitted /\ ~isSubmitting /\ ~ValidForm(formValues)) =>
        \A f \in SchemaFields :
            IF Violates(formValues, f)
            THEN InlineMessage(f) \in ExpectedMessages(formValues, f)
            ELSE InlineMessage(f) = NoError

\* C4: a successful submit only logs: the step in which the callback runs adds
\* exactly one console entry, the validated data, issues no request, and leaves
\* the genre list, the movie list and the route unchanged; the logged movie is
\* not an entry of the movie list.
C4_SubmitOnlyLogs ==
    [][CallbackRuns =>
          /\ console' = Append(console, zodResolver(formValues).values)
          /\ requests' = requests
          /\ genres' = genres
          /\ movies' = movies
          /\ pathname' = pathname
          /\ \A i \in DOMAIN movies' : movies'[i] = movie]_vars

\* A submit has succeeded: the validated data is on the console.
C4_Witness ==
    /\ isSubmitted
    /\ ~isSubmitting
    /\ Len(console) >= 1
    /\ console[1] = zodResolver(formValues).values
    /\ ValidForm(formValues)

\* The requests issued by AddMovie mount m.
RequestsOf(m) == {i \in DOMAIN requests : requests[i].mount = m}

\* C5: each mount of AddMovie issues exactly one genre request, and nothing
\* that happens to the mounted component afterwards issues another.
C5_OneRequestPerMount ==
    \A m \in 1..mountId : Cardinality(RequestsOf(m)) = 1

\* C6: once a genre request of the mounted AddMovie has failed, its genre list
\* is the empty list (and stays so), and no request is retried.
C6_FailedFetchLeavesGenresEmpty ==
    (Page = "AddMovie" /\ \E i \in RequestsOf(mountId) : requests[i].status = "failed")
        => genres = <<>>

\* C7: whenever Home is displayed its list is four copies of the same movie
\* record and four cards are shown; Delete clicks, navigation and submits do
\* not change it.
C7_MovieListFixed ==
    Page = "Home" =>
        /\ Len(movies) = 4
        /\ \A i \in 1..4 : movies[i] = movie
        /\ DOMAIN movie = {"id", "title", "year", "genre", "rating", "description"}
        /\ Len(Cards) = 4

\* Home is displayed again after a visit to the add-movie page.
C7_Witness ==
    /\ Page = "Home"
    /\ mountId >= 1
    /\ lastLink = "Movies"
    /\ Len(movies) = 4

\* C8: the router has two routes, both inside Layout: "/" shows Home and
\* "/add-movie" shows AddMovie, and after any clicks on the navigation links
\* the displayed page is the target of the last link clicked.
C8_PageFollowsLastLink ==
    /\ Len(router) = 2
    /\ pathname = "/" => (Page = "Home" /\ LayoutShown)
    /\ pathname = "/add-movie" => (Page = "AddMovie" /\ LayoutShown)
    /\ LayoutShown => pathname \in {"/", "/add-movie"}
    /\ {NavLinks[i].label : i \in DOMAIN NavLinks} = {"Movie App", "Movies", "Add Movie"}
    /\ lastLink \in {"Movie App", "Movies"} => (pathname = "/" /\ Page = "Home")
    /\ lastLink = "Add Movie" => (pathname = "/add-movie" /\ Page = "AddMovie")

\* The form is displayed after "Add Movie" was clicked last, and the user has
\* since acted on the page.
C8_Witness ==
    /\ lastLink = "Add Movie"
    /\ Page = "AddMovie"
    /\ mountId = 2
    /\ isSubmitted

RECURSIVE TruthyNames(_)
\* The class names at the truthy positions of a cn argument.
TruthyNames(mix) ==
    CASE mix.t = "string" -> {mix.s[i] : i \in 1..Len(mix.s)} \ {" "}
      [] mix.t = "array" ->
            UNION {TruthyNames(mix.items[i]) :
                      i \in {k \in 1..Len(mix.items) : Truthy(mix.items[k])}}
      [] mix.t = "object" ->
            UNION {{mix.items[i][k] : k \in 1..Len(mix.items[i])} :
                      i \in {k \in 1..Len(mix.items) : mix.vals[k]}}
      [] OTHER -> {}

\* Class d, placed after class c, overrides it.
Overrides(d, c) ==
    /\ ClassGroup(c) # ""
    /\ ClassGroup(c) \in {ClassGroup(d)} \cup ConflictingClassGroups(ClassGroup(d))

\* C9: cn returns a class string, names separated by single spaces, that
\* holds only class names of truthy inputs, keeps every class that is not a
\* Tailwind class, keeps of conflicting Tailwind classes only the last one
\* (cn('p-4', 'p-6') is 'p-6'), and cn applied to its own result returns it.
C9_CnMergesAndIsIdempotent ==
    LET out == cnCall.out
        given == UNION {TruthyNames(cnCall.inputs[i]) : i \in DOMAIN cnCall.inputs}
        at == {i \in DOMAIN out : out[i] # " "}
    IN  cnCall.called >= 1 =>
          /\ \A i \in DOMAIN out : (out[i] = " ") <=> (i % 2 = 0)
          /\ Len(out) > 0 => Len(out) % 2 = 1
          /\ \A i \in at : out[i] \in given
          /\ \A i, j \in at : i < j => ~Overrides(out[j], out[i])
          /\ \A c \in given :
                \/ \E i \in at : out[i] = c
                \/ \E i \in at : Overrides(out[i], c)
          /\ cnCall.inputs = <<ClassStr(<<"p-4">>), ClassStr(<<"p-6">>)>>
                => out = <<"p-6">>
          /\ cnCall.called = 2 => cnCall.again = out

\* cn has dropped an overridden class and a falsy input, and was applied
\* again to its result.
C9_Witness ==
    /\ cnCall.called = 2
    /\ cnCall.inputs = <<Arr(<<ClassStr(<<"px-2">>), False>>), ClassStr(<<"p-4">>)>>
    /\ cnCall.out = <<"p-4">>
    /\ cnCall.again = <<"p-4">>

\* C10: the cards rendered by Home have pairwise distinct React keys.
C10_CardKeysUnique ==
    \A i, j \in DOMAIN Cards : i # j => Cards[i].key # Cards[j].key

\* C11: while AddMovie is displayed the Genre dropdown has one option per
\* genre of the component state, in order, with value id and label name; the
\* state is the empty list until a response has reached this mount and then
\* the items of the response received last; the five static genres are never
\* the options shown.
C11_OptionsAreFetchedGenres ==
    Page = "AddMovie" =>
        /\ Len(GenreOptions) = Len(genres)
        /\ \A i \in 1..Len(genres) :
              /\ GenreOptions[i].value = genres[i].id
              /\ GenreOptions[i].label = genres[i].name
        /\ genres = received[mountId].data
        /\ (\A i \in RequestsOf(mountId) : requests[i].status # "ok")
              => GenreOptions = <<>>
        /\ (\E i \in RequestsOf(mountId) : requests[i].status = "ok")
              => genres \in GenreLists
        /\ Len(GenreOptions) # 5
        /\ \A i \in DOMAIN GenreOptions :
              GenreOptions[i].label \notin {"Drama", "Horror", "Romance"}

\* The dropdown shows the two fetched genres in the order of the response.
C11_Witness ==
    /\ Page = "AddMovie"
    /\ \E i \in RequestsOf(mountId) : requests[i].status = "ok"
    /\ genres = <<ServerGenre(2), ServerGenre(1)>>
    /\ Len(GenreOptions) = 2
    /\ GenreOptions[1].label = "Comedy"
    /\ dom["genre_id"] = Num(2)

\* A step in which the response of request i arrives.
ResponseArrives(i) ==
    /\ requests[i].status = "pending"
    /\ requests'[i].status = "ok"

\* C12: a genre request is never cancelled: it is never withdrawn, and while
\* it is pending its response can arrive, whatever page is displayed and
\* whichever other requests are pending. An arriving response is handed to
\* the setGenres callback of the mount that issued it and to no other; it sets
\* the genre list only if that mount is the one displayed, so the list of a
\* mount is the data of the response of that mount that arrived last.
C12_ResponsesBoundToMount ==
    /\ [](\A i \in DOMAIN requests :
            (requests[i].status = "pending" /\ ~isSubmitting) =>
                \A data \in GenreLists : ENABLED Respond(i, data))
    /\ [][\A i \in DOMAIN requests :
            /\ i \in DOMAIN requests'
            /\ requests'[i].mount = requests[i].mount
            /\ requests[i].status # "pending" => requests'[i] = requests[i]]_vars
    /\ [][\A i \in DOMAIN requests :
            ResponseArrives(i) =>
              LET m == requests[i].mount
              IN  /\ \A o \in DOMAIN received : o # m => received'[o] = received[o]
                  /\ IF Page = "AddMovie" /\ m = mountId
                     THEN /\ received'[m].data \in GenreLists
                          /\ genres' = received'[m].data
                     ELSE /\ received'[m].late
                          /\ genres' = genres]_vars

\* In a development build the second mount shows the data of its own two
\* responses, and a response of the first mount has arrived after the user
\* had left that mount.
C12_Witness ==
    /\ strictDev
    /\ Page = "AddMovie"
    /\ mountId = 2
    /\ \A i \in RequestsOf(2) : requests[i].status = "ok"
    /\ received[1].late
    /\ genres = received[2].data
    /\ genres \in GenreLists

\* A navigation link carries the active style.
IsActive(class) == class[2] = ActiveStyle

\* C13: wherever Layout is shown, the "Movies" link carries the active style
\* exactly on the Home route and the "Add Movie" link exactly on the add-movie
\* route, so exactly one of the two is active and never both; a link that is
\* not active carries the inactive style.
C13_OneActiveLink ==
    LayoutShown =>
        /\ IsActive(MoviesLinkClass) <=> (pathname = "/" /\ Page = "Home")
        /\ IsActive(AddMovieLinkClass)
              <=> (pathname = "/add-movie" /\ Page = "AddMovie")
        /\ ~(IsActive(MoviesLinkClass) /\ IsActive(AddMovieLinkClass))
        /\ IsActive(MoviesLinkClass) \/ IsActive(AddMovieLinkClass)
        /\ \A class \in {MoviesLinkClass, AddMovieLinkClass} :
              ~IsActive(class) => class[2] = InactiveStyle

\* After a visit to Home the user is on the add-movie page and only its link
\* is active.
C13_Witness ==
    /\ lastLink = "Add Movie"
    /\ Page = "AddMovie"
    /\ mountId = 2
    /\ IsActive(AddMovieLinkClass)
    /\ ~IsActive(MoviesLinkClass)

\* A step in which a submission is started through the submit button.
SubmitBegins == ~isSubmitting /\ isSubmitting'

\* C14: the submit button is disabled and labelled "Adding..." exactly while
\* isSubmitting is true, and enabled and labelled "Add Movie" otherwise; no
\* submission is started while one is in progress, and the step that ends a
\* submission, valid or invalid, leaves the button enabled.
C14_ButtonFollowsIsSubmitting ==
    /\ [](Page = "AddMovie" =>
            /\ SubmitButton.disabled <=> isSubmitting
            /\ SubmitButton.label = "Adding..." <=> isSubmitting
            /\ SubmitButton.label = "Add Movie" <=> ~isSubmitting)
    /\ [][isSubmitting => (~isSubmitting' /\ isSubmitted')]_vars
    /\ [][SubmitBegins => (Page = "AddMovie" /\ ~SubmitButton.disabled)]_vars
    /\ [][SubmitEnds =>
            (~SubmitButton.disabled /\ SubmitButton.label = "Add Movie")']_vars
    /\ [](isSubmitting => Page = "AddMovie")

\* A valid submission has finished and the button is enabled again.
C14_Witness ==
    /\ Page = "AddMovie"
    /\ isSubmitted
    /\ ~isSubmitting
    /\ console # <<>>
    /\ ~SubmitButton.disabled
    /\ SubmitButton.label = "Add Movie"

====
